---- MODULE Spec2Model ----
(***************************************************************************)
(* Model of backend/main.py: the FastAPI service that manages Categoria,   *)
(* CentroTreinamento and Atleta rows in a PostgreSQL store through         *)
(* SQLAlchemy's asyncpg dialect.                                           *)
(*                                                                         *)
(* Every handler is an `async def`; it gives up control at each `await`    *)
(* (db.execute, db.commit, db.refresh), so handlers of different requests  *)
(* interleave at these points.  One action models the code from one await  *)
(* to the next; the first action of a handler also holds the validation    *)
(* that FastAPI runs on the request before it calls the handler.           *)
(*                                                                         *)
(* Values.  A str is a TLA+ string, except cpf, which is a tuple of        *)
(* one-character strings so that the pattern ^\d{11}$ is computed.         *)
(* A request body is a record holding exactly the fields that the JSON     *)
(* body supplies.  In AtletaUpdate every field is Optional: a supplied     *)
(* field is <<v>>, or <<>> for an explicit JSON null.  A UUID is the       *)
(* record [uuid |-> <<table, n>>], the n-th value uuid.uuid4() drew for a  *)
(* row of that table: a value that no other row ever gets.                 *)
(***************************************************************************)
EXTENDS Integers, Sequences, FiniteSets, TLC

\* ------------------------------------------------------------ bounds

\* Requests that arrive in one behaviour.
MaxRequests == 5

\* ------------------------------------------------- program constants

CategoriaNomeMax == 10
CentroNomeMax == 50
CentroEnderecoMax == 100
CentroProprietarioMax == 50
AtletaNomeMax == 100
CpfLen == 11
SexoLen == 1
LimitMax == 100

HTTP_200_OK == 200
HTTP_201_CREATED == 201
HTTP_204_NO_CONTENT == 204
HTTP_303_SEE_OTHER == 303
HTTP_404_NOT_FOUND == 404
HTTP_409_CONFLICT == 409
HTTP_422_UNPROCESSABLE_ENTITY == 422
HTTP_500_INTERNAL_SERVER_ERROR == 500

\* The handlers that run concurrently (two requests in flight at most).
Clients == {1, 2}

\* ------------------------------------------------------------ values

Digits == {"0", "1", "2", "3", "4", "5", "6", "7", "8", "9"}

Rep(n, ch) == [i \in 1..n |-> ch]

CpfA == Rep(11, "1")
CpfB == Rep(11, "2")
CpfShort == Rep(10, "1")
CpfLong == Rep(12, "1")
CpfAlpha == [i \in 1..11 |-> IF i = 11 THEN "x" ELSE "1"]

Name11 == "Brown Belts"
Name51 == "123456789012345678901234567890123456789012345678901"
Name101 == Name51 \o "12345678901234567890123456789012345678901234567890"

\* uuid.uuid4() returns a value never seen before: the n-th UUID drawn for a
\* row of table t.
Uuid(t, n) == [uuid |-> <<t, n>>]

\* Optional values of AtletaUpdate and of the query parameters.
None == <<>>
Some(v) == <<v>>

Has(b, k) == k \in DOMAIN b

\* Python truthiness of an Optional[str]: None and the empty string are falsy.
Truthy(opt, empty) == opt # None /\ opt[1] # empty

\* ----------------------------------------------- validation (pydantic)

AllDigits(s) == \A i \in 1..Len(s) : s[i] \in Digits

ValidCategoriaIn(b) ==
    /\ Has(b, "nome")
    /\ Len(b.nome) <= CategoriaNomeMax

ValidCentroTreinamentoIn(b) ==
    /\ Has(b, "nome") /\ Has(b, "endereco") /\ Has(b, "proprietario")
    /\ Len(b.nome) <= CentroNomeMax
    /\ Len(b.endereco) <= CentroEnderecoMax
    /\ Len(b.proprietario) <= CentroProprietarioMax

AtletaInFields ==
    {"nome", "cpf", "idade", "peso", "altura", "sexo",
     "centro_treinamento_pk_id", "categoria_pk_id"}

\* Mutant of ValidCpf: max_length without min_length.
ValidCpfMaxOnly(s) == Len(s) <= CpfLen /\ AllDigits(s)

\* min_length=11, max_length=11, pattern=r"^\d{11}$"
ValidCpf(s) == Len(s) = CpfLen /\ AllDigits(s)

ValidSexo(s) == Len(s) = SexoLen /\ s \in {"M", "F"}

ValidAtletaIn(b) ==
    /\ \A k \in AtletaInFields : Has(b, k)
    /\ Len(b.nome) <= AtletaNomeMax
    /\ ValidCpf(b.cpf)
    /\ b.idade > 0
    /\ b.peso > 0
    /\ b.altura > 0
    /\ ValidSexo(b.sexo)

\* AtletaUpdate declares no constraint: every field is Optional and free.
AtletaUpdateFields ==
    {"nome", "cpf", "idade", "peso", "altura", "sexo",
     "categoria_id", "centro_treinamento_id"}

ValidAtletaUpdate(b) == DOMAIN b \subseteq AtletaUpdateFields

ValidPage(q) == q.skip >= 0 /\ q.limit >= 1 /\ q.limit <= LimitMax

\* ------------------------------------------------------------- state

VARIABLES
    categorias,     \* rows of table categoria
    centros,        \* rows of table centro_treinamento
    atletas,        \* rows of table atleta
    catSeq,         \* last value of the sequence behind categoria.pk_id
    ctSeq,          \* last value of the sequence behind centro_treinamento.pk_id
    atSeq,          \* last value of the sequence behind atleta.pk_id
    started,        \* number of requests that have arrived (the logical clock)
    req,            \* per client: the handler it runs and the await it stands at
    resp,           \* the response sent last
    deleted         \* UUIDs of the athletes that a DELETE answered with 204

vars == <<categorias, centros, atletas, catSeq, ctSeq, atSeq, started,
          req, resp, deleted>>

\* A running handler: pc is the await it stands at, obj the ORM object that
\* its session holds.
Handler(op, arg, pc, obj) == [op |-> op, arg |-> arg, pc |-> pc, obj |-> obj]

Idle == Handler("idle", <<>>, "", <<>>)

\* A response: status is the HTTP status, out what it carries (the UUID of
\* the Location header or of the returned record, the page of a listing);
\* touched says whether the handler sent a statement to the store, and
\* committed whether a commit of the request succeeded.
Response(op, status, out, touched, committed) ==
    [op |-> op, status |-> status, out |-> out,
     touched |-> touched, committed |-> committed]

\* The request line of a response, for the routes with a UUID in the path.
To(id, response) == [response EXCEPT !.out = [id |-> id, body |-> response.out]]

\* The response to a request that pydantic rejects: the handler never runs.
Rejected(op) ==
    Response(op, HTTP_422_UNPROCESSABLE_ENTITY, <<>>, FALSE, FALSE)

\* A handler that returns, or raises HTTPException, before any commit.
Answer(op, status, out) == Response(op, status, out, TRUE, FALSE)

Running(c) == req[c] # Idle

\* A request arrives at the first client that is free.
Free(c) ==
    /\ ~Running(c)
    /\ \A d \in Clients : d < c => Running(d)
    /\ started < MaxRequests

At(c, op, pc) == req[c].op = op /\ req[c].pc = pc

Init ==
    /\ categorias = {}
    /\ centros = {}
    /\ atletas = {}
    /\ catSeq = 0
    /\ ctSeq = 0
    /\ atSeq = 0
    /\ started = 0
    /\ req = [c \in Clients |-> Idle]
    /\ resp = Response("", 0, <<>>, FALSE, FALSE)
    /\ deleted = {}

\* --------------------------------------------- the store's exceptions

\* What db.commit() raises.  SQLAlchemy's asyncpg dialect wraps the driver's
\* exception: e.orig is the dialect's own DBAPI exception, and the asyncpg
\* exception is its __cause__ (the message is the well known
\* "(sqlalchemy.dialects.postgresql.asyncpg.IntegrityError)
\*   <class 'asyncpg.exceptions.UniqueViolationError'>: duplicate key ...").
StoreError(exc, orig, cause) == [exc |-> exc, orig |-> orig, cause |-> cause]

NoError == StoreError("", "", "")

UniqueError ==
    StoreError("IntegrityError", "AsyncAdapt_asyncpg_dbapi.IntegrityError",
               "UniqueViolationError")

NotNullError ==
    StoreError("IntegrityError", "AsyncAdapt_asyncpg_dbapi.IntegrityError",
               "NotNullViolationError")

ForeignKeyError ==
    StoreError("IntegrityError", "AsyncAdapt_asyncpg_dbapi.IntegrityError",
               "ForeignKeyViolationError")

TruncationError ==
    StoreError("DBAPIError", "AsyncAdapt_asyncpg_dbapi.Error",
               "StringDataRightTruncationError")

ArgumentError ==
    StoreError("DBAPIError", "AsyncAdapt_asyncpg_dbapi.Error",
               "DataError")

StaleDataError == StoreError("StaleDataError", "", "")

InvalidRequestError == StoreError("InvalidRequestError", "", "")

\* isinstance(e.orig, cls) for a class cls of asyncpg.exceptions.
IsInstance(orig, cls) == orig = cls

\* "foreign key" in str(e.orig).lower(): the message of e.orig quotes the
\* driver's message, which names the violated foreign key constraint.
MentionsForeignKey(e) == e.cause = "ForeignKeyViolationError"

\* The except clauses of create_categoria and create_centro_treinamento.
CreateErrorStatus(e) ==
    IF e.exc = "IntegrityError"
    THEN IF IsInstance(e.orig, "StringDataRightTruncationError")
         THEN HTTP_422_UNPROCESSABLE_ENTITY
         ELSE IF IsInstance(e.orig, "UniqueViolationError")
         THEN HTTP_409_CONFLICT
         ELSE IF IsInstance(e.orig, "NotNullViolationError")
         THEN HTTP_422_UNPROCESSABLE_ENTITY
         ELSE HTTP_500_INTERNAL_SERVER_ERROR
    ELSE IF e.exc = "DataError"
    THEN HTTP_422_UNPROCESSABLE_ENTITY
    ELSE HTTP_500_INTERNAL_SERVER_ERROR

\* The except clauses of create_atleta.
CreateAtletaErrorStatus(e) ==
    IF e.exc = "IntegrityError"
    THEN IF IsInstance(e.orig, "StringDataRightTruncationError")
         THEN HTTP_422_UNPROCESSABLE_ENTITY
         ELSE IF IsInstance(e.orig, "UniqueViolationError")
         THEN HTTP_409_CONFLICT
         ELSE IF IsInstance(e.orig, "NotNullViolationError")
         THEN HTTP_422_UNPROCESSABLE_ENTITY
         ELSE IF MentionsForeignKey(e)
         THEN HTTP_422_UNPROCESSABLE_ENTITY
         ELSE HTTP_500_INTERNAL_SERVER_ERROR
    ELSE IF e.exc = "DataError"
    THEN HTTP_422_UNPROCESSABLE_ENTITY
    ELSE HTTP_500_INTERNAL_SERVER_ERROR

\* The except clauses of update_atleta and of delete_atleta.
UpdateErrorStatus(e) ==
    IF e.exc = "IntegrityError"
    THEN HTTP_409_CONFLICT
    ELSE HTTP_500_INTERNAL_SERVER_ERROR

\* The detail of the answer of update_atleta: a fixed text for an
\* IntegrityError, and a text that quotes the exception otherwise.
UpdateErrorDetail(e) == IF e.exc = "IntegrityError" THEN <<>> ELSE e

\* ------------------------------------------------------- categorias

CategoriaBodies ==
    { [nome |-> "Gi"], [nome |-> Name11], [descricao |-> "Gi"] }

\* Mutant of CategoriaByNome: a pre-check that never finds the row.
CategoriaByNomeNever(nome) == {}

\* select(Categoria).where(Categoria.nome == body.nome)
CategoriaByNome(nome) == {x \in categorias : x.nome = nome}

\* unique=True on Categoria.nome, checked by the store at the INSERT.
CategoriaInsertError(row) ==
    IF \E r \in categorias : r.nome = row.nome THEN UniqueError ELSE NoError

\* POST /categorias/: the validation of the body, and the handler up to the
\* answer of the pre-check.
CreateCategoria(c, b) ==
    /\ Free(c)
    /\ started' = started + 1
    /\ LET op == "create_categoria"
           existing == CategoriaByNome(b.nome)
       IN  IF ~ValidCategoriaIn(b)
           THEN resp' = Rejected(op) /\ UNCHANGED req
           ELSE IF existing # {}
           THEN /\ resp' = Answer(op, HTTP_303_SEE_OTHER,
                                  (CHOOSE x \in existing : TRUE).id)
                /\ UNCHANGED req
           ELSE /\ req' = [req EXCEPT ![c] = Handler(op, b, "commit", b)]
                /\ UNCHANGED resp
    /\ UNCHANGED <<categorias, centros, atletas, catSeq, ctSeq, atSeq, deleted>>

\* await db.commit(): the INSERT is flushed and the transaction committed,
\* or the store raises and the except clauses roll back and answer.
CreateCategoriaCommit(c) ==
    /\ At(c, "create_categoria", "commit")
    /\ LET row == [pk_id |-> catSeq + 1, id |-> Uuid("categoria", catSeq + 1),
                   nome |-> req[c].obj.nome]
           e == CategoriaInsertError(row)
       IN  /\ catSeq' = catSeq + 1
           /\ IF e = NoError
              THEN /\ categorias' = categorias \cup {row}
                   /\ req' = [req EXCEPT ![c].pc = "refresh", ![c].obj = row]
                   /\ UNCHANGED resp
              ELSE /\ resp' = Answer(req[c].op, CreateErrorStatus(e), <<>>)
                   /\ req' = [req EXCEPT ![c] = Idle]
                   /\ UNCHANGED categorias
    /\ UNCHANGED <<centros, atletas, ctSeq, atSeq, started, deleted>>

\* await db.refresh(db_categoria); return db_categoria.
CreateCategoriaRefresh(c) ==
    /\ At(c, "create_categoria", "refresh")
    /\ LET found == {x \in categorias : x.pk_id = req[c].obj.pk_id}
       IN  resp' = IF found # {}
                   THEN Response(req[c].op, HTTP_201_CREATED,
                                 (CHOOSE x \in found : TRUE).id, TRUE, TRUE)
                   ELSE Response(req[c].op,
                                 CreateErrorStatus(InvalidRequestError), <<>>,
                                 TRUE, TRUE)
    /\ req' = [req EXCEPT ![c] = Idle]
    /\ UNCHANGED <<categorias, centros, atletas, catSeq, ctSeq, atSeq,
                   started, deleted>>

\* ---------------------------------------------- centros de treinamento

CentroBase == [nome |-> "CT King", endereco |-> "Rua X, 1", proprietario |-> "Marcos"]

CentroBodies ==
    { CentroBase,
      [CentroBase EXCEPT !.nome = Name51],
      [CentroBase EXCEPT !.endereco = Name101],
      [CentroBase EXCEPT !.proprietario = Name51],
      [nome |-> "CT King", endereco |-> "Rua X, 1"] }

\* select(CentroTreinamento).where(CentroTreinamento.nome == body.nome)
CentroByNome(nome) == {x \in centros : x.nome = nome}

\* unique=True on CentroTreinamento.nome, checked by the store at the INSERT.
CentroInsertError(row) ==
    IF \E r \in centros : r.nome = row.nome THEN UniqueError ELSE NoError

\* POST /centros_treinamento/: the validation of the body, and the handler
\* up to the answer of the pre-check.
CreateCentroTreinamento(c, b) ==
    /\ Free(c)
    /\ started' = started + 1
    /\ LET op == "create_centro_treinamento"
           existing == CentroByNome(b.nome)
       IN  IF ~ValidCentroTreinamentoIn(b)
           THEN resp' = Rejected(op) /\ UNCHANGED req
           ELSE IF existing # {}
           THEN /\ resp' = Answer(op, HTTP_303_SEE_OTHER,
                                  (CHOOSE x \in existing : TRUE).id)
                /\ UNCHANGED req
           ELSE /\ req' = [req EXCEPT ![c] = Handler(op, b, "commit", b)]
                /\ UNCHANGED resp
    /\ UNCHANGED <<categorias, centros, atletas, catSeq, ctSeq, atSeq, deleted>>

\* await db.commit(): the INSERT is flushed and the transaction committed,
\* or the store raises and the except clauses roll back and answer.
CreateCentroTreinamentoCommit(c) ==
    /\ At(c, "create_centro_treinamento", "commit")
    /\ LET b == req[c].obj
           row == [pk_id |-> ctSeq + 1, id |-> Uuid("centro_treinamento", ctSeq + 1),
                   nome |-> b.nome,
                   endereco |-> b.endereco, proprietario |-> b.proprietario]
           e == CentroInsertError(row)
       IN  /\ ctSeq' = ctSeq + 1
           /\ IF e = NoError
              THEN /\ centros' = centros \cup {row}
                   /\ req' = [req EXCEPT ![c].pc = "refresh", ![c].obj = row]
                   /\ UNCHANGED resp
              ELSE /\ resp' = Answer(req[c].op, CreateErrorStatus(e), <<>>)
                   /\ req' = [req EXCEPT ![c] = Idle]
                   /\ UNCHANGED centros
    /\ UNCHANGED <<categorias, atletas, catSeq, atSeq, started, deleted>>

\* await db.refresh(db_centro); return db_centro.
CreateCentroTreinamentoRefresh(c) ==
    /\ At(c, "create_centro_treinamento", "refresh")
    /\ LET found == {x \in centros : x.pk_id = req[c].obj.pk_id}
       IN  resp' = IF found # {}
                   THEN Response(req[c].op, HTTP_201_CREATED,
                                 (CHOOSE x \in found : TRUE).id, TRUE, TRUE)
                   ELSE Response(req[c].op,
                                 CreateErrorStatus(InvalidRequestError), <<>>,
                                 TRUE, TRUE)
    /\ req' = [req EXCEPT ![c] = Idle]
    /\ UNCHANGED <<categorias, centros, atletas, catSeq, ctSeq, atSeq,
                   started, deleted>>

\* ------------------------------------------------- atletas: create

AtletaBase ==
    [nome |-> "Ana", cpf |-> CpfA, idade |-> 20, peso |-> 70, altura |-> 2,
     sexo |-> "F", centro_treinamento_pk_id |-> 1, categoria_pk_id |-> 1]

\* Bodies that pydantic accepts.
AtletaGoodBodies ==
    { [AtletaBase EXCEPT !.nome = n, !.cpf = p] :
        n \in {"Ana", ""}, p \in {CpfA, CpfB} }
    \cup
    { [AtletaBase EXCEPT !.categoria_pk_id = k, !.centro_treinamento_pk_id = t] :
        k \in {1, 2}, t \in {1, 2} }

\* Bodies with one constraint of AtletaIn violated each.
AtletaBadBodies ==
    { [AtletaBase EXCEPT !.cpf = CpfShort],
      [AtletaBase EXCEPT !.cpf = CpfLong],
      [AtletaBase EXCEPT !.cpf = CpfAlpha],
      [AtletaBase EXCEPT !.idade = 0],
      [AtletaBase EXCEPT !.peso = 0],
      [AtletaBase EXCEPT !.altura = 0 - 1],
      [AtletaBase EXCEPT !.sexo = "X"],
      [AtletaBase EXCEPT !.sexo = "MF"],
      [AtletaBase EXCEPT !.nome = Name101],
      [k \in AtletaInFields \ {"cpf"} |-> AtletaBase[k]] }

AtletaBodies == AtletaGoodBodies \cup AtletaBadBodies

\* Mutant of AtletaByCpf: a look-up that never finds the cpf.
AtletaByCpfNever(cpf) == {}

\* select(Atleta).filter(Atleta.cpf == body.cpf)
AtletaByCpf(cpf) == {x \in atletas : x.cpf = cpf}

\* Mutant of CategoriaByPkId: the filter on pk_id is lost.
CategoriaByPkIdAny(pk_id) == categorias

\* select(Categoria).filter(Categoria.pk_id == body.categoria_pk_id)
CategoriaByPkId(pk_id) == {x \in categorias : x.pk_id = pk_id}

\* Mutant of CentroByPkId: the filter on pk_id is lost.
CentroByPkIdAny(pk_id) == centros

\* select(CentroTreinamento).filter(CentroTreinamento.pk_id == ...)
CentroByPkId(pk_id) == {x \in centros : x.pk_id = pk_id}

\* select(Atleta).where(Atleta.id == id)
AtletaById(id) == {x \in atletas : x.id = id}

\* The constraints of table atleta that an INSERT can violate: unique=True
\* on cpf, and the two foreign keys.
AtletaInsertError(row) ==
    IF \E r \in atletas : r.cpf = row.cpf
    THEN UniqueError
    ELSE IF \/ ~\E k \in categorias : k.pk_id = row.categoria_id
            \/ ~\E t \in centros : t.pk_id = row.centro_treinamento_id
    THEN ForeignKeyError
    ELSE NoError

\* POST /atletas/: the validation of the body, and the handler up to the
\* answer of the look-up of the cpf.
CreateAtleta(c, b) ==
    /\ Free(c)
    /\ started' = started + 1
    /\ LET op == "create_atleta"
       IN  IF ~ValidAtletaIn(b)
           THEN resp' = Rejected(op) /\ UNCHANGED req
           ELSE IF AtletaByCpf(b.cpf) # {}
           THEN resp' = Answer(op, HTTP_409_CONFLICT, <<>>) /\ UNCHANGED req
           ELSE /\ req' = [req EXCEPT ![c] = Handler(op, b, "categoria", <<>>)]
                /\ UNCHANGED resp
    /\ UNCHANGED <<categorias, centros, atletas, catSeq, ctSeq, atSeq, deleted>>

\* The look-up of the Categoria by pk_id.
CreateAtletaCategoria(c) ==
    /\ At(c, "create_atleta", "categoria")
    /\ IF CategoriaByPkId(req[c].arg.categoria_pk_id) # {}
       THEN req' = [req EXCEPT ![c].pc = "centro"] /\ UNCHANGED resp
       ELSE /\ resp' = Answer(req[c].op, HTTP_404_NOT_FOUND, "categoria")
            /\ req' = [req EXCEPT ![c] = Idle]
    /\ UNCHANGED <<categorias, centros, atletas, catSeq, ctSeq, atSeq,
                   started, deleted>>

\* The look-up of the CentroTreinamento by pk_id; Atleta(...); db.add.
CreateAtletaCentro(c) ==
    /\ At(c, "create_atleta", "centro")
    /\ LET b == req[c].arg
       IN  IF CentroByPkId(b.centro_treinamento_pk_id) # {}
           THEN /\ req' = [req EXCEPT ![c].pc = "commit", ![c].obj =
                       [nome |-> b.nome, cpf |-> b.cpf, idade |-> b.idade,
                        peso |-> b.peso, altura |-> b.altura, sexo |-> b.sexo,
                        centro_treinamento_id |-> b.centro_treinamento_pk_id,
                        categoria_id |-> b.categoria_pk_id]]
                /\ UNCHANGED resp
           ELSE /\ resp' = Answer(req[c].op, HTTP_404_NOT_FOUND, "centro_treinamento")
                /\ req' = [req EXCEPT ![c] = Idle]
    /\ UNCHANGED <<categorias, centros, atletas, catSeq, ctSeq, atSeq,
                   started, deleted>>

\* await db.commit(): the INSERT is flushed and the transaction committed,
\* or the store raises and the except clauses roll back and answer.
CreateAtletaCommit(c) ==
    /\ At(c, "create_atleta", "commit")
    /\ LET o == req[c].obj
           row == [pk_id |-> atSeq + 1, id |-> Uuid("atleta", atSeq + 1), nome |-> o.nome,
                   cpf |-> o.cpf, idade |-> o.idade, peso |-> o.peso,
                   altura |-> o.altura, sexo |-> o.sexo, created_at |-> started,
                   categoria_id |-> o.categoria_id,
                   centro_treinamento_id |-> o.centro_treinamento_id]
           e == AtletaInsertError(row)
       IN  /\ atSeq' = atSeq + 1
           /\ IF e = NoError
              THEN /\ atletas' = atletas \cup {row}
                   /\ req' = [req EXCEPT ![c].pc = "refresh", ![c].obj = row]
                   /\ UNCHANGED resp
              ELSE /\ resp' = Answer(req[c].op,
                                     CreateAtletaErrorStatus(e), <<>>)
                   /\ req' = [req EXCEPT ![c] = Idle]
                   /\ UNCHANGED atletas
    /\ UNCHANGED <<categorias, centros, catSeq, ctSeq, started, deleted>>

\* await db.refresh(db_atleta); return db_atleta.  The row may be gone: the
\* DELETE of another request can commit between the two awaits.
CreateAtletaRefresh(c) ==
    /\ At(c, "create_atleta", "refresh")
    /\ LET found == {x \in atletas : x.pk_id = req[c].obj.pk_id}
       IN  resp' = IF found # {}
                   THEN Response(req[c].op, HTTP_201_CREATED,
                                 (CHOOSE x \in found : TRUE).id, TRUE, TRUE)
                   ELSE Response(req[c].op,
                                 CreateAtletaErrorStatus(InvalidRequestError), <<>>,
                                 TRUE, TRUE)
    /\ req' = [req EXCEPT ![c] = Idle]
    /\ UNCHANGED <<categorias, centros, atletas, catSeq, ctSeq, atSeq,
                   started, deleted>>

\* ------------------------------------------------- atletas: update

\* The UUIDs a client asks for: those of the rows, those of deleted rows,
\* and one that no row ever had.
AtletaIds == {x.id : x \in atletas} \cup deleted \cup {Uuid("atleta", 0)}

NoFields == [k \in {} |-> None]

\* Bodies of PATCH.  AtletaUpdate accepts each of them.
AtletaUpdateBodies ==
    { NoFields,
      [nome |-> Some("Bob")],
      [nome |-> Some("Bob"), idade |-> Some(21)],
      [idade |-> Some(0)],
      [peso |-> Some(0 - 5), altura |-> Some(0)],
      [sexo |-> Some("X")],
      [sexo |-> Some("MF")],
      [cpf |-> Some(CpfB)],
      [cpf |-> Some(CpfB), nome |-> Some("Bob")],
      [nome |-> None] }
    \cup { [categoria_id |-> Some(k.id)] : k \in categorias }
    \cup { [centro_treinamento_id |-> Some(t.id)] : t \in centros }
    \cup { [cpf |-> Some(CpfB), categoria_id |-> Some(k.id)] : k \in categorias }
    \cup { [centro_treinamento_id |-> None] }

\* The attributes of Atleta that are foreign keys: Integer columns.
ReferenceColumns == {"categoria_id", "centro_treinamento_id"}

\* The String(n) columns of Atleta.
ColumnWidth == [nome |-> AtletaNomeMax, cpf |-> CpfLen, sexo |-> SexoLen]

\* setattr(atleta_db, key, value) leaves a net change on the attribute when
\* the value differs from the loaded one; a UUID or None never equals the
\* integer that a reference column holds.
Modified(loaded, b) ==
    {k \in DOMAIN b : IF k \in ReferenceColumns THEN TRUE ELSE b[k] # Some(loaded[k])}

\* Mutant of AtletaUpdateError: the argument of a reference column is not
\* checked against the type of the column.
AtletaUpdateErrorUntyped(loaded, b) ==
    LET m == Modified(loaded, b)
    IN  IF m = {}
        THEN NoError
        ELSE IF ~\E x \in atletas : x.pk_id = loaded.pk_id
        THEN StaleDataError
        ELSE IF \E k \in m \cap DOMAIN ColumnWidth :
                   b[k] # None /\ Len(b[k][1]) > ColumnWidth[k]
        THEN TruncationError
        ELSE IF \E k \in m : b[k] = None
        THEN NotNullError
        ELSE IF "cpf" \in m /\ \E x \in atletas :
                   x.pk_id # loaded.pk_id /\ x.cpf = b.cpf[1]
        THEN UniqueError
        ELSE NoError

\* What the flush of the UPDATE raises.  The statement sets the modified
\* columns of the row with the loaded pk_id.  asyncpg refuses a UUID as the
\* argument of an integer column before the statement runs; the ORM raises
\* StaleDataError when the statement matches no row; the store raises for a
\* string wider than its column, for a NULL, and for a cpf another row has.
AtletaUpdateError(loaded, b) ==
    LET m == Modified(loaded, b)
    IN  IF m = {}
        THEN NoError
        ELSE IF \E k \in m \cap ReferenceColumns : b[k] # None
        THEN ArgumentError
        ELSE IF ~\E x \in atletas : x.pk_id = loaded.pk_id
        THEN StaleDataError
        ELSE IF \E k \in m \cap DOMAIN ColumnWidth :
                   b[k] # None /\ Len(b[k][1]) > ColumnWidth[k]
        THEN TruncationError
        ELSE IF \E k \in m : b[k] = None
        THEN NotNullError
        ELSE IF "cpf" \in m /\ \E x \in atletas :
                   x.pk_id # loaded.pk_id /\ x.cpf = b.cpf[1]
        THEN UniqueError
        ELSE NoError

\* Mutant of AtletaUpdated: the UPDATE writes every column from the object
\* of the session, the loaded values included.
AtletaUpdatedFromSession(row, loaded, b) ==
    [k \in DOMAIN row |-> IF k \in DOMAIN b THEN b[k][1] ELSE loaded[k]]

\* The row after the UPDATE: the modified columns take the supplied values.
AtletaUpdated(row, loaded, b) ==
    LET m == Modified(loaded, b)
    IN  [k \in DOMAIN row |-> IF k \in m THEN b[k][1] ELSE row[k]]

\* PATCH /atletas/{id}: the validation, the look-up by UUID, model_dump(
\* exclude_unset=True) and the setattr loop.
UpdateAtleta(c, id, b) ==
    /\ Free(c)
    /\ started' = started + 1
    /\ LET op == "update_atleta"
           found == AtletaById(id)
       IN  IF ~ValidAtletaUpdate(b)
           THEN resp' = Rejected(op) /\ UNCHANGED req
           ELSE IF found = {}
           THEN resp' = To(id, Answer(op, HTTP_404_NOT_FOUND, <<>>)) /\ UNCHANGED req
           ELSE /\ req' = [req EXCEPT ![c] =
                     Handler(op, [id |-> id, body |-> b], "commit",
                             CHOOSE x \in found : TRUE)]
                /\ UNCHANGED resp
    /\ UNCHANGED <<categorias, centros, atletas, catSeq, ctSeq, atSeq, deleted>>

\* await db.commit(): the UPDATE is flushed and the transaction committed,
\* or the flush raises and the except clauses roll back and answer.
UpdateAtletaCommit(c) ==
    /\ At(c, "update_atleta", "commit")
    /\ LET loaded == req[c].obj
           b == req[c].arg.body
           e == AtletaUpdateError(loaded, b)
       IN  IF e = NoError
           THEN /\ atletas' = {IF x.pk_id = loaded.pk_id
                               THEN AtletaUpdated(x, loaded, b) ELSE x : x \in atletas}
                /\ req' = [req EXCEPT ![c].pc = "refresh"]
                /\ UNCHANGED resp
           ELSE /\ resp' = To(req[c].arg.id,
                              Answer(req[c].op, UpdateErrorStatus(e), UpdateErrorDetail(e)))
                /\ req' = [req EXCEPT ![c] = Idle]
                /\ UNCHANGED atletas
    /\ UNCHANGED <<categorias, centros, catSeq, ctSeq, atSeq, started, deleted>>

\* await db.refresh(atleta_db); return atleta_db.  The row may be gone: the
\* DELETE of another request can commit between the two awaits.
UpdateAtletaRefresh(c) ==
    /\ At(c, "update_atleta", "refresh")
    /\ LET found == {x \in atletas : x.pk_id = req[c].obj.pk_id}
           wrote == Modified(req[c].obj, req[c].arg.body) # {}
       IN  resp' = To(req[c].arg.id,
                      IF found # {}
                      THEN Response(req[c].op, HTTP_200_OK,
                                    CHOOSE x \in found : TRUE, TRUE, wrote)
                      ELSE Response(req[c].op, UpdateErrorStatus(InvalidRequestError),
                                    UpdateErrorDetail(InvalidRequestError), TRUE, wrote))
    /\ req' = [req EXCEPT ![c] = Idle]
    /\ UNCHANGED <<categorias, centros, atletas, catSeq, ctSeq, atSeq,
                   started, deleted>>

\* ------------------------------------------------- atletas: delete

\* DELETE /atletas/{id}: the look-up by UUID, and db.delete(atleta).
DeleteAtleta(c, id) ==
    /\ Free(c)
    /\ started' = started + 1
    /\ LET op == "delete_atleta"
           found == AtletaById(id)
       IN  IF found = {}
           THEN resp' = To(id, Answer(op, HTTP_404_NOT_FOUND, <<>>)) /\ UNCHANGED req
           ELSE /\ req' = [req EXCEPT ![c] =
                     Handler(op, [id |-> id], "commit", CHOOSE x \in found : TRUE)]
                /\ UNCHANGED resp
    /\ UNCHANGED <<categorias, centros, atletas, catSeq, ctSeq, atSeq, deleted>>

\* Mutant of AtletaDeleted: the DELETE removes nothing.
AtletaDeletedNothing(rows, pk_id) == rows

\* The rows left by DELETE FROM atleta WHERE pk_id = :pk_id.
AtletaDeleted(rows, pk_id) == {x \in rows : x.pk_id # pk_id}

\* await db.commit(): the DELETE is flushed and committed.  No row of
\* another table refers to an athlete, so the store has nothing to raise; a
\* DELETE that matches no row (another request deleted it) only warns.
DeleteAtletaCommit(c) ==
    /\ At(c, "delete_atleta", "commit")
    /\ atletas' = AtletaDeleted(atletas, req[c].obj.pk_id)
    /\ resp' = To(req[c].arg.id,
                   Response(req[c].op, HTTP_204_NO_CONTENT, <<>>, TRUE,
                            atletas' # atletas))
    /\ deleted' = deleted \cup {req[c].arg.id}
    /\ req' = [req EXCEPT ![c] = Idle]
    /\ UNCHANGED <<categorias, centros, catSeq, ctSeq, atSeq, started>>

\* --------------------------------------------------- atletas: read

\* GET /atletas/{atleta_id}.
GetAtletaById(c, id) ==
    /\ Free(c)
    /\ started' = started + 1
    /\ LET found == AtletaById(id)
       IN  resp' = To(id,
                      IF found = {}
                      THEN Answer("get_atleta_by_id", HTTP_404_NOT_FOUND, <<>>)
                      ELSE Answer("get_atleta_by_id", HTTP_200_OK,
                                  CHOOSE x \in found : TRUE))
    /\ UNCHANGED <<categorias, centros, atletas, catSeq, ctSeq, atSeq, req, deleted>>

\* The query strings of GET /atletas/.
Queries ==
    { [nome |-> n, cpf |-> p, skip |-> w[1], limit |-> w[2]] :
        n \in {None, Some(""), Some("Ana")}, p \in {None, Some(CpfA)},
        w \in {<<0, 1>>, <<1, 1>>, <<0, 2>>} }
    \cup
    { [nome |-> None, cpf |-> None, skip |-> w[1], limit |-> w[2]] :
        w \in {<<0 - 1, 1>>, <<0, 0>>, <<0, LimitMax + 1>>} }

\* base_query: `if nome:` and `if cpf:` add the filters.
BaseQuery(q) ==
    {x \in atletas :
        /\ Truthy(q.nome, "") => x.nome = q.nome[1]
        /\ Truthy(q.cpf, <<>>) => x.cpf = q.cpf[1]}

\* The rows of a query in the order of pk_id.
RECURSIVE OrderByPkId(_)
OrderByPkId(rows) ==
    IF rows = {}
    THEN <<>>
    ELSE LET first == CHOOSE x \in rows : \A y \in rows : x.pk_id <= y.pk_id
         IN  <<first>> \o OrderByPkId(rows \ {first})

\* .offset(skip).limit(limit)
OffsetLimit(seq, skip, limit) ==
    SubSeq(seq, skip + 1, IF skip + limit < Len(seq) THEN skip + limit ELSE Len(seq))

\* GET /atletas/: the validation of the query, and the count query.
ReadAtletas(c, q) ==
    /\ Free(c)
    /\ started' = started + 1
    /\ IF ~ValidPage(q)
       THEN resp' = Rejected("read_atletas") /\ UNCHANGED req
       ELSE /\ req' = [req EXCEPT ![c] =
                 Handler("read_atletas", q, "page", Cardinality(BaseQuery(q)))]
            /\ UNCHANGED resp
    /\ UNCHANGED <<categorias, centros, atletas, catSeq, ctSeq, atSeq, deleted>>

\* The paginated query, and the AtletaPaginatedOut returned.
ReadAtletasPage(c) ==
    /\ At(c, "read_atletas", "page")
    /\ LET q == req[c].arg
           page == OffsetLimit(OrderByPkId(BaseQuery(q)), q.skip, q.limit)
       IN  resp' = Answer(req[c].op, HTTP_200_OK,
                          [items |-> [i \in 1..Len(page) |-> page[i].id],
                           total |-> req[c].obj, limit |-> q.limit,
                           offset |-> q.skip])
    /\ req' = [req EXCEPT ![c] = Idle]
    /\ UNCHANGED <<categorias, centros, atletas, catSeq, ctSeq, atSeq,
                   started, deleted>>

\* ------------------------------------------------------------- system

Next ==
    \E c \in Clients :
        \/ \E b \in CategoriaBodies : CreateCategoria(c, b)
        \/ CreateCategoriaCommit(c)
        \/ CreateCategoriaRefresh(c)
        \/ \E b \in CentroBodies : CreateCentroTreinamento(c, b)
        \/ CreateCentroTreinamentoCommit(c)
        \/ CreateCentroTreinamentoRefresh(c)
        \/ \E b \in AtletaBodies : CreateAtleta(c, b)
        \/ CreateAtletaCategoria(c)
        \/ CreateAtletaCentro(c)
        \/ CreateAtletaCommit(c)
        \/ CreateAtletaRefresh(c)
        \/ \E id \in AtletaIds, b \in AtletaUpdateBodies : UpdateAtleta(c, id, b)
        \/ UpdateAtletaCommit(c)
        \/ UpdateAtletaRefresh(c)
        \/ \E id \in AtletaIds : DeleteAtleta(c, id)
        \/ DeleteAtletaCommit(c)
        \/ \E id \in AtletaIds : GetAtletaById(c, id)
        \/ \E q \in Queries : ReadAtletas(c, q)
        \/ ReadAtletasPage(c)

Spec == Init /\ [][Next]_vars

\* ================================================================ claims

ErrorStatuses ==
    {HTTP_404_NOT_FOUND, HTTP_409_CONFLICT, HTTP_422_UNPROCESSABLE_ENTITY,
     HTTP_500_INTERNAL_SERVER_ERROR}

\* A step in which a request for op arrives at client c: the action of the
\* arrival either answers it or leaves its handler running.
Arrives(c, op) ==
    /\ started' # started
    /\ ~Running(c)
    /\ resp'.op = op \/ req'[c].op = op

\* C1: a POST of a Category or of a TrainingCenter whose body passes the
\* validation and whose name a row of the store has is answered 303, the Location naming the id of that
\* row; no handler is left running, no row is added, and exactly one row has
\* the name.
C1_DuplicateNameRedirects ==
    [][\A c \in Clients :
        /\ \A b \in CategoriaBodies :
             ( /\ Arrives(c, "create_categoria")
               /\ ValidCategoriaIn(b)
               /\ \E x \in categorias : x.nome = b.nome
               /\ CreateCategoria(c, b) )
             => /\ resp'.op = "create_categoria"
                /\ resp'.status = HTTP_303_SEE_OTHER
                /\ \E x \in categorias : x.nome = b.nome /\ resp'.out = x.id
                /\ req' = req
                /\ categorias' = categorias
                /\ Cardinality({x \in categorias' : x.nome = b.nome}) = 1
        /\ \A b \in CentroBodies :
             ( /\ Arrives(c, "create_centro_treinamento")
               /\ ValidCentroTreinamentoIn(b)
               /\ \E x \in centros : x.nome = b.nome
               /\ CreateCentroTreinamento(c, b) )
             => /\ resp'.op = "create_centro_treinamento"
                /\ resp'.status = HTTP_303_SEE_OTHER
                /\ \E x \in centros : x.nome = b.nome /\ resp'.out = x.id
                /\ req' = req
                /\ centros' = centros
                /\ Cardinality({x \in centros' : x.nome = b.nome}) = 1
      ]_vars

\* A POST /categorias/ was answered 303 with the id of a stored category.
C1_Witness ==
    /\ resp.op = "create_categoria"
    /\ resp.status = HTTP_303_SEE_OTHER
    /\ \E x \in categorias : x.id = resp.out /\ x.nome = "Gi"

\* C2: a POST /atletas/ whose body passes the validation and whose cpf a
\* row of the store has is answered 409, whatever its other fields are, and
\* the rows of atleta stay as they are.
C2_DuplicateCpfConflict ==
    [][\A c \in Clients : \A b \in AtletaGoodBodies :
        ( /\ Arrives(c, "create_atleta")
          /\ \E x \in atletas : x.cpf = b.cpf
          /\ CreateAtleta(c, b) )
        => /\ resp'.op = "create_atleta"
           /\ resp'.status = HTTP_409_CONFLICT
           /\ req' = req
           /\ atletas' = atletas
      ]_vars

\* A POST /atletas/ was answered 409 by the look-up of the cpf.
C2_Witness ==
    /\ resp.op = "create_atleta"
    /\ resp.status = HTTP_409_CONFLICT
    /\ atletas # {}

\* C3: a create_atleta that has found its cpf free and whose categoria_pk_id
\* matches no category, or whose centro_treinamento_pk_id matches no
\* training center, is answered 404 by that look-up, and the rows of atleta
\* stay as they are.
C3_MissingReferenceNotFound ==
    [][\A c \in Clients :
        ( /\ req[c].op = "create_atleta"
          /\ req'[c] # req[c]
          /\ \/ /\ req[c].pc = "categoria"
                /\ ~\E k \in categorias : k.pk_id = req[c].arg.categoria_pk_id
             \/ /\ req[c].pc = "centro"
                /\ ~\E t \in centros : t.pk_id = req[c].arg.centro_treinamento_pk_id )
        => /\ resp'.op = "create_atleta"
           /\ resp'.status = HTTP_404_NOT_FOUND
           /\ req'[c] = Idle
           /\ atletas' = atletas
           /\ atSeq' = atSeq
      ]_vars

\* A POST /atletas/ was answered 404 for its training center: the cpf was
\* free and the category was found.
C3_Witness ==
    /\ resp.op = "create_atleta"
    /\ resp.status = HTTP_404_NOT_FOUND
    /\ resp.out = "centro_treinamento"
    /\ categorias # {}

\* C4: the steps of a PATCH handler change nothing but the row it loaded,
\* and of that row only fields that the body supplies: every other field
\* (pk_id, id, created_at, and the references when the body leaves them out)
\* keeps its value; no row appears or disappears, and the categories and the
\* training centers stay as they are.
C4_PatchChangesOnlySuppliedFields ==
    [][\A c \in Clients :
        ( /\ req[c].op = "update_atleta"
          /\ req'[c] # req[c] )
        => /\ categorias' = categorias
           /\ centros' = centros
           /\ {y.pk_id : y \in atletas'} = {x.pk_id : x \in atletas}
           /\ \A x \in atletas : \A y \in atletas' :
                x.pk_id = y.pk_id
                => IF x.pk_id = req[c].obj.pk_id
                   THEN \A k \in DOMAIN x \ DOMAIN req[c].arg.body : y[k] = x[k]
                   ELSE y = x
      ]_vars

\* A PATCH that supplied nome and idade was answered 200: the row has the
\* two new values, and the cpf and the sexo it was created with.
C4_Witness ==
    /\ resp.op = "update_atleta"
    /\ resp.status = HTTP_200_OK
    /\ resp.committed
    /\ \E x \in atletas :
         /\ x.id = resp.out.id
         /\ x.nome = "Bob" /\ x.idade = 21
         /\ x.cpf = CpfA /\ x.sexo = "F" /\ x.categoria_id = 1

\* C5: a DELETE of a UUID that no athlete has is answered 404 and changes no
\* row; once a DELETE of a UUID was answered 204, every GET, PATCH and DELETE
\* that arrives for that UUID is answered 404, and no row has that UUID.
C5_DeletedStaysNotFound ==
    [][\A c \in Clients :
        /\ \A id \in AtletaIds :
             ( /\ Arrives(c, "delete_atleta")
               /\ ~\E x \in atletas : x.id = id
               /\ DeleteAtleta(c, id) )
             => /\ resp' = To(id, Answer("delete_atleta", HTTP_404_NOT_FOUND, <<>>))
                /\ req' = req
                /\ atletas' = atletas
        /\ \A id \in deleted :
             /\ ~\E x \in atletas' : x.id = id
             /\ ( /\ started' # started
                  /\ \/ GetAtletaById(c, id)
                     \/ DeleteAtleta(c, id)
                     \/ \E b \in AtletaUpdateBodies : UpdateAtleta(c, id, b) )
                => /\ resp'.status = HTTP_404_NOT_FOUND
                   /\ resp'.out.id = id
                   /\ req' = req
                   /\ atletas' = atletas
      ]_vars

\* A GET for the UUID of a deleted athlete was answered 404.
C5_Witness ==
    /\ resp.op = "get_atleta_by_id"
    /\ resp.status = HTTP_404_NOT_FOUND
    /\ resp.out.id \in deleted

\* The filters of a listing, as the query string gives them: a filter that
\* is present selects the rows with exactly that value.
C6_Matching(q) ==
    {x \in atletas :
        /\ q.nome # None => x.nome = q.nome[1]
        /\ q.cpf # None => x.cpf = q.cpf[1]}

\* C6: a listing with skip >= 0 and 1 <= limit <= 100 counts the rows that
\* match the filters given (both, when both are given), whatever skip and
\* limit are; it returns that count as total and at most limit items.
C6_ListingTotalAndLength ==
    [][\A c \in Clients :
        /\ ( req[c] = Idle /\ req'[c].op = "read_atletas" )
           => req'[c].obj = Cardinality(C6_Matching(req'[c].arg))
        /\ ( req[c].op = "read_atletas" /\ req'[c] = Idle )
           => /\ resp'.status = HTTP_200_OK
              /\ resp'.out.total = req[c].obj
              /\ Len(resp'.out.items) <= req[c].arg.limit
      ]_vars

\* C7: every stored athlete has idade > 0, peso > 0, altura > 0 and a sexo
\* that is "M" or "F".
C7_StoredAthletesAreValid ==
    \A x \in atletas :
        /\ x.idade > 0
        /\ x.peso > 0
        /\ x.altura > 0
        /\ x.sexo \in {"M", "F"}

\* The constraints C8 names, written out on the body of the request.
C8_BadCategoria(b) == ~Has(b, "nome") \/ Len(b.nome) > 10

C8_BadCentro(b) ==
    \/ \E k \in {"nome", "endereco", "proprietario"} : ~Has(b, k)
    \/ Len(b.nome) > 50
    \/ Len(b.endereco) > 100
    \/ Len(b.proprietario) > 50

C8_BadAtleta(b) ==
    \/ \E k \in AtletaInFields : ~Has(b, k)
    \/ Len(b.cpf) # 11
    \/ \E i \in 1..Len(b.cpf) : b.cpf[i] \notin Digits
    \/ b.idade <= 0
    \/ b.peso <= 0
    \/ b.altura <= 0
    \/ b.sexo \notin {"M", "F"}

\* The request is answered 422 and nothing else happens: no handler runs, no
\* statement reaches the store, no row and no sequence changes.
C8_RejectedUntouched(op) ==
    /\ resp' = Response(op, HTTP_422_UNPROCESSABLE_ENTITY, <<>>, FALSE, FALSE)
    /\ req' = req
    /\ UNCHANGED <<categorias, centros, atletas, catSeq, ctSeq, atSeq>>

\* C8: a create request whose body violates a constraint of its input model
\* is answered 422 before any access to the store.
C8_InvalidCreateNeverReachesStore ==
    [][\A c \in Clients :
        /\ \A b \in CategoriaBodies :
             ( /\ Arrives(c, "create_categoria")
               /\ C8_BadCategoria(b)
               /\ CreateCategoria(c, b) )
             => C8_RejectedUntouched("create_categoria")
        /\ \A b \in CentroBodies :
             ( /\ Arrives(c, "create_centro_treinamento")
               /\ C8_BadCentro(b)
               /\ CreateCentroTreinamento(c, b) )
             => C8_RejectedUntouched("create_centro_treinamento")
        /\ \A b \in AtletaBodies :
             ( /\ Arrives(c, "create_atleta")
               /\ C8_BadAtleta(b)
               /\ CreateAtleta(c, b) )
             => C8_RejectedUntouched("create_atleta")
      ]_vars

\* A POST /atletas/ was rejected while the store held what a valid request
\* needs: a category, a training center, and an athlete.
C8_Witness ==
    /\ resp = Response("create_atleta", HTTP_422_UNPROCESSABLE_ENTITY, <<>>,
                       FALSE, FALSE)
    /\ categorias # {} /\ centros # {} /\ atletas # {}

\* The operations that write.
C9_Writers ==
    {"create_categoria", "create_centro_treinamento", "create_atleta",
     "update_atleta", "delete_atleta"}

\* C9: a create, PATCH or delete request ends with one outcome: a success,
\* or ValidationError, NotFound, Conflict, Redirect or InternalError; a
\* request that ends with an error outcome has committed nothing, and the
\* step that ends it leaves the rows as they are.
C9_ErrorOutcomeCommitsNothing ==
    [][\A c \in Clients :
        ( /\ req[c].op \in C9_Writers
          /\ req'[c] = Idle )
        => /\ resp'.op = req[c].op
           /\ resp'.status \in
                {HTTP_200_OK, HTTP_201_CREATED, HTTP_204_NO_CONTENT,
                 HTTP_303_SEE_OTHER} \cup ErrorStatuses
           /\ resp'.status \in ErrorStatuses
              => /\ ~resp'.committed
                 /\ UNCHANGED <<categorias, centros, atletas>>
      ]_vars

\* No two categories and no two training centers share a name, no two
\* athletes share a cpf.
UniqueKeys ==
    /\ \A x, y \in categorias : x.nome = y.nome => x = y
    /\ \A x, y \in centros : x.nome = y.nome => x = y
    /\ \A x, y \in atletas : x.cpf = y.cpf => x = y

\* C10: when a create reaches its commit and the store holds a row with its
\* unique key (another create passed the same pre-check and committed
\* first), the request ends with 409 and adds no row; the unique keys stay
\* unique.
C10_RaceLoserGetsConflict ==
    [][/\ UniqueKeys'
       /\ \A c \in Clients :
            ( /\ req[c].pc = "commit"
              /\ req'[c] # req[c]
              /\ \/ /\ req[c].op = "create_categoria"
                    /\ \E x \in categorias : x.nome = req[c].arg.nome
                 \/ /\ req[c].op = "create_centro_treinamento"
                    /\ \E x \in centros : x.nome = req[c].arg.nome
                 \/ /\ req[c].op = "create_atleta"
                    /\ \E x \in atletas : x.cpf = req[c].arg.cpf )
            => /\ resp'.op = req[c].op
               /\ resp'.status = HTTP_409_CONFLICT
               /\ req'[c] = Idle
               /\ UNCHANGED <<categorias, centros, atletas>>
      ]_vars

\* The rows of a table that have the public UUID u.
ByUuid(rows, u) == {x \in rows : x.id = u}

\* C11: a PATCH of an athlete that is in the store, with any subset of the
\* fields, each given a value the columns can hold (no null, no string wider
\* than its column, no cpf of another athlete) and each reference naming the
\* UUID of an existing Category / TrainingCenter, is committed: afterwards
\* the athlete holds the supplied values, its reference fields hold the
\* pk_id of the named rows, and the request is answered 200.
C11_PatchAnySubsetSucceeds ==
    [][\A c \in Clients :
        /\ ( /\ At(c, "update_atleta", "commit")
             /\ req'[c] # req[c]
             /\ \E x \in atletas : x.pk_id = req[c].obj.pk_id
             /\ LET b == req[c].arg.body
                IN  /\ \A k \in DOMAIN b : b[k] # None
                    /\ \A k \in DOMAIN b \cap DOMAIN ColumnWidth :
                          Len(b[k][1]) <= ColumnWidth[k]
                    /\ "cpf" \in DOMAIN b =>
                          ~\E x \in atletas : /\ x.pk_id # req[c].obj.pk_id
                                              /\ x.cpf = b.cpf[1]
                    /\ "categoria_id" \in DOMAIN b =>
                          ByUuid(categorias, b.categoria_id[1]) # {}
                    /\ "centro_treinamento_id" \in DOMAIN b =>
                          ByUuid(centros, b.centro_treinamento_id[1]) # {} )
           => LET b == req[c].arg.body
              IN  /\ req'[c].pc = "refresh"
                  /\ \A x \in atletas' : x.pk_id = req[c].obj.pk_id =>
                        /\ \A k \in DOMAIN b \ ReferenceColumns : x[k] = b[k][1]
                        /\ "categoria_id" \in DOMAIN b =>
                              \E k \in ByUuid(categorias, b.categoria_id[1]) :
                                  k.pk_id = x.categoria_id
                        /\ "centro_treinamento_id" \in DOMAIN b =>
                              \E t \in ByUuid(centros, b.centro_treinamento_id[1]) :
                                  t.pk_id = x.centro_treinamento_id
        /\ ( /\ At(c, "update_atleta", "refresh")
             /\ req'[c] # req[c]
             /\ \E x \in atletas : x.pk_id = req[c].obj.pk_id )
           => resp'.status = HTTP_200_OK
      ]_vars

\* The keys of the rows of atleta.
AtletaKeys(rows) == {x.pk_id : x \in rows}

\* C12: create_atleta checks the cpf, then the Category, then the
\* TrainingCenter, and inserts only after the three have passed: a request
\* whose cpf a row has is answered 409 also when its Category or its
\* TrainingCenter does not exist; a request whose Category does not exist is
\* answered with the 404 of the Category also when its TrainingCenter does
\* not exist; a handler moves on to the next check only when the check
\* before it has passed, and a row is added only by the commit of a handler
\* that has passed the three.
C12_ChecksInFixedOrder ==
    [][\A c \in Clients :
        /\ \A b \in AtletaGoodBodies :
             ( /\ Arrives(c, "create_atleta")
               /\ \E x \in atletas : x.cpf = b.cpf
               /\ \/ ~\E k \in categorias : k.pk_id = b.categoria_pk_id
                  \/ ~\E t \in centros : t.pk_id = b.centro_treinamento_pk_id
               /\ CreateAtleta(c, b) )
             => /\ resp'.op = "create_atleta"
                /\ resp'.status = HTTP_409_CONFLICT
                /\ req'[c] = Idle
        /\ ( /\ At(c, "create_atleta", "categoria")
             /\ req'[c] # req[c]
             /\ ~\E k \in categorias : k.pk_id = req[c].arg.categoria_pk_id )
           => /\ resp'.op = "create_atleta"
              /\ resp'.status = HTTP_404_NOT_FOUND
              /\ resp'.out = "categoria"
              /\ req'[c] = Idle
        /\ ( /\ req'[c].op = "create_atleta"
             /\ req'[c] # req[c] )
           => /\ req'[c].pc = "categoria" =>
                   /\ ~Running(c)
                   /\ ~\E x \in atletas : x.cpf = req'[c].arg.cpf
              /\ req'[c].pc = "centro" =>
                   /\ At(c, "create_atleta", "categoria")
                   /\ \E k \in categorias : k.pk_id = req[c].arg.categoria_pk_id
              /\ req'[c].pc = "commit" =>
                   /\ At(c, "create_atleta", "centro")
                   /\ \E t \in centros :
                         t.pk_id = req[c].arg.centro_treinamento_pk_id
              /\ req'[c].pc = "refresh" => At(c, "create_atleta", "commit")
        /\ AtletaKeys(atletas') \ AtletaKeys(atletas) # {}
             => \E d \in Clients : /\ At(d, "create_atleta", "commit")
                                   /\ req'[d].pc = "refresh"
      ]_vars

\* A POST /atletas/ whose Category and whose TrainingCenter do not exist was
\* answered with the 404 of the Category.
C12_Witness ==
    /\ resp.op = "create_atleta"
    /\ resp.status = HTTP_404_NOT_FOUND
    /\ resp.out = "categoria"
    /\ centros = {}

\* C13: a PATCH that gives an athlete in the store the cpf of another
\* athlete in the store is answered 409, whatever other fields it supplies,
\* and the rows of atleta stay as they are.
C13_PatchCpfConflict ==
    [][\A c \in Clients :
        ( /\ At(c, "update_atleta", "commit")
          /\ req'[c] # req[c]
          /\ "cpf" \in DOMAIN req[c].arg.body
          /\ req[c].arg.body.cpf # None
          /\ \E x \in atletas : x.pk_id = req[c].obj.pk_id
          /\ \E y \in atletas : /\ y.pk_id # req[c].obj.pk_id
                                 /\ y.cpf = req[c].arg.body.cpf[1] )
        => /\ resp'.op = "update_atleta"
           /\ resp'.status = HTTP_409_CONFLICT
           /\ req'[c] = Idle
           /\ atletas' = atletas
      ]_vars

\* Equality of two stored values of any type.
SameValue(x, y) == ToString(x) = ToString(y)

\* C14: in every reachable state the categoria_id of each athlete is the
\* pk_id of a row of categoria and its centro_treinamento_id the pk_id of a
\* row of centro_treinamento.
C14_ReferencesResolve ==
    \A a \in atletas :
        /\ \E k \in categorias : SameValue(k.pk_id, a.categoria_id)
        /\ \E t \in centros : SameValue(t.pk_id, a.centro_treinamento_id)

\* A PATCH that supplied the UUID of an existing Category or TrainingCenter
\* as a reference has been answered, and the athlete is in the store.
C14_Witness ==
    /\ resp.op = "update_atleta"
    /\ resp.status = HTTP_500_INTERNAL_SERVER_ERROR
    /\ resp.out.body = ArgumentError
    /\ \E a \in atletas : a.id = resp.out.id

====
